---- MODULE Spec2Model ----
(***************************************************************************)
(* Model of the Flux MCP server (src/src/index.ts): the CallTool request   *)
(* handler, its two field validators, the translation of arguments into a  *)
(* command vector and runPythonCommand's handling of the child process     *)
(* events.                                                                 *)
(*                                                                         *)
(* Text is a sequence of symbols.  Caller-supplied text, digits and the    *)
(* output of the child process are sequences of single characters; a       *)
(* literal of the program (an operation name, a flag, a value of an        *)
(* enumeration, a piece of a message template) is one symbol.              *)
(* Concatenation is \o.                                                    *)
(*                                                                         *)
(* A JavaScript number is held in fixed point, as a count of units of      *)
(* 1/Denom; NaN and the two infinities are separate tags.                  *)
(***************************************************************************)
EXTENDS Integers, Sequences, FiniteSets, TLC

\* Decimal places a number of the model carries.
FracDigits == 4

\* Child-process data events (stdout and stderr together) per call.
MaxChunks == 2
MaxFailed == 2

Denom == 10 ^ FracDigits

(***************************************************************************)
(* JavaScript values                                                       *)
(***************************************************************************)
JSValue(t, n, s) == [t |-> t, n |-> n, s |-> s]

Undefined == JSValue("undefined", 0, <<>>)
Null == JSValue("null", 0, <<>>)
NaN == JSValue("NaN", 0, <<>>)
PosInfinity == JSValue("Infinity", 0, <<>>)
NegInfinity == JSValue("-Infinity", 0, <<>>)
\* The number units/Denom.
Num(units) == JSValue("number", units, <<>>)
\* The integer i.
Whole(i) == Num(i * Denom)
Str(s) == JSValue("string", 0, s)

\* typeof value
TypeOf(v) ==
    CASE v.t \in {"number", "NaN", "Infinity", "-Infinity"} -> "number"
      [] v.t = "null" -> "object"
      [] OTHER -> v.t

\* isNaN(value), for a value whose typeof is "number"
isNaN(v) == v.t = "NaN"

\* a < b for two values whose typeof is "number"; b is finite.
LessThan(a, b) ==
    CASE a.t = "NaN" -> FALSE
      [] a.t = "-Infinity" -> TRUE
      [] a.t = "Infinity" -> FALSE
      [] OTHER -> a.n < b.n

\* a > b for two values whose typeof is "number"; b is finite.
GreaterThan(a, b) ==
    CASE a.t = "NaN" -> FALSE
      [] a.t = "-Infinity" -> FALSE
      [] a.t = "Infinity" -> TRUE
      [] OTHER -> a.n > b.n

\* The truthiness test of `if (value)`.
Truthy(v) ==
    CASE v.t \in {"undefined", "null", "NaN"} -> FALSE
      [] v.t = "number" -> v.n # 0
      [] v.t = "string" -> v.s # <<>>
      [] OTHER -> TRUE

(***************************************************************************)
(* Text                                                                    *)
(***************************************************************************)
DigitChar(d) == <<"0", "1", "2", "3", "4", "5", "6", "7", "8", "9">>[d + 1]

RECURSIVE IntDigits(_)
IntDigits(i) ==
    IF i < 10 THEN <<DigitChar(i)>>
    ELSE IntDigits(i \div 10) \o <<DigitChar(i % 10)>>

\* The decimal digits of f/Denom (0 <= f < Denom), without trailing zeros.
RECURSIVE FracText(_)
FracText(f) ==
    IF f = 0 THEN <<>>
    ELSE <<DigitChar((f * 10) \div Denom)>> \o FracText((f * 10) % Denom)

\* Number.prototype.toString, and the rendering `${value}` of a number.
NumberToString(v) ==
    CASE v.t = "NaN" -> <<"NaN">>
      [] v.t = "Infinity" -> <<"Infinity">>
      [] v.t = "-Infinity" -> <<"-", "Infinity">>
      [] OTHER ->
          LET a == IF v.n < 0 THEN 0 - v.n ELSE v.n
              whole == IntDigits(a \div Denom)
              frac == FracText(a % Denom)
          IN  (IF v.n < 0 THEN <<"-">> ELSE <<>>)
              \o whole
              \o (IF frac = <<>> THEN <<>> ELSE <<".">> \o frac)

\* `${value}` of any value of the model.
TemplateText(v) ==
    CASE v.t = "undefined" -> <<"undefined">>
      [] v.t = "null" -> <<"null">>
      [] v.t = "string" -> v.s
      [] OTHER -> NumberToString(v)

IsWhitespace(ch) == ch \in {" ", "\t", "\n"}

\* String.prototype.trim
RECURSIVE trim(_)
trim(s) ==
    IF s = <<>> THEN s
    ELSE IF IsWhitespace(Head(s)) THEN trim(Tail(s))
    ELSE IF IsWhitespace(s[Len(s)]) THEN trim(SubSeq(s, 1, Len(s) - 1))
    ELSE s

\* sub occurs in text as a contiguous run.
Contains(text, sub) ==
    \E i \in 0..(Len(text) - Len(sub)) : SubSeq(text, i + 1, i + Len(sub)) = sub

\* chunks joined in order.
RECURSIVE Concat(_)
Concat(chunks) ==
    IF chunks = <<>> THEN <<>> ELSE Head(chunks) \o Concat(Tail(chunks))

(***************************************************************************)
(* Errors and completions                                                  *)
(***************************************************************************)
NoError == [cls |-> "none", code |-> "none", message |-> <<>>]

\* new McpError(code, message)
McpError(code, message) == [cls |-> "McpError", code |-> code, message |-> message]

\* new Error(message)
Error(message) == [cls |-> "Error", code |-> "none", message |-> message]

\* The TypeError of reading property `field` of undefined.
TypeError(field) ==
    [cls |-> "TypeError", code |-> "none",
     message |-> <<"Cannot read properties of undefined (reading '", field, "')">>]

Return(v) == [kind |-> "return", value |-> v, err |-> NoError]
Throw(e) == [kind |-> "throw", value |-> Undefined, err |-> e]

(***************************************************************************)
(* Field validators                                                        *)
(***************************************************************************)
validateRequiredStringAcceptsBlank(value, fieldName) ==
    IF TypeOf(value) # "string" \/ value.s = <<>>
    THEN Throw(McpError("InvalidParams",
                        <<fieldName, " is required and must be a non-empty string">>))
    ELSE Return(value)

validateRequiredString(value, fieldName) ==
    IF TypeOf(value) # "string" \/ trim(value.s) = <<>>
    THEN Throw(McpError("InvalidParams",
                        <<fieldName, " is required and must be a non-empty string">>))
    ELSE Return(value)

\* validateNumber with exclusive bounds.
validateNumberExclusive(value, fieldName, min, max) ==
    IF value = Undefined \/ value = Null THEN Return(Undefined)
    ELSE IF TypeOf(value) # "number" \/ isNaN(value)
    THEN Throw(McpError("InvalidParams", <<fieldName, " must be a valid number">>))
    ELSE IF min # Undefined /\ ~GreaterThan(value, min)
    THEN Throw(McpError("InvalidParams",
                        <<fieldName, " must be at least ">> \o TemplateText(min)))
    ELSE IF max # Undefined /\ ~LessThan(value, max)
    THEN Throw(McpError("InvalidParams",
                        <<fieldName, " must be at most ">> \o TemplateText(max)))
    ELSE Return(value)

\* min and max are Undefined when the caller passes none.
validateNumber(value, fieldName, min, max) ==
    IF value = Undefined \/ value = Null THEN Return(Undefined)
    ELSE IF TypeOf(value) # "number" \/ isNaN(value)
    THEN Throw(McpError("InvalidParams", <<fieldName, " must be a valid number">>))
    ELSE IF min # Undefined /\ LessThan(value, min)
    THEN Throw(McpError("InvalidParams",
                        <<fieldName, " must be at least ">> \o TemplateText(min)))
    ELSE IF max # Undefined /\ GreaterThan(value, max)
    THEN Throw(McpError("InvalidParams",
                        <<fieldName, " must be at most ">> \o TemplateText(max)))
    ELSE Return(value)

(***************************************************************************)
(* The arguments payload and the command vector                            *)
(***************************************************************************)
Fields ==
    {"prompt", "model", "aspect_ratio", "width", "height", "output", "image",
     "name", "strength", "mask_shape", "position", "type", "steps", "guidance"}

\* request.params.arguments: absent, or an object.  A key the object lacks
\* reads as Undefined.
NoArguments == [present |-> FALSE, props |-> [f \in Fields |-> Undefined]]
Arguments(props) == [present |-> TRUE, props |-> props]

\* args.<field>, for a payload that is an object.
Prop(args, field) == args.props[field]

\* The first completion of `steps` that threw, else `rest`: the statements of
\* a case run in order and a throw ends the case.
RECURSIVE Sequentially(_, _)
Sequentially(steps, rest) ==
    IF steps = <<>> THEN rest
    ELSE IF Head(steps).kind = "throw" THEN Head(steps)
    ELSE Sequentially(Tail(steps), rest)

\* The command vector handed to runPythonCommand.
Run(cmdArgs) == [kind |-> "run", cmdArgs |-> cmdArgs]

\* The push without its guard.
PushAlways(cond, flag, text) == <<<<flag>>, text>>

\* cmdArgs.push(flag, value) guarded by `if (cond)`.  A string option is
\* pushed as it is, a validated number through toString().
PushIf(cond, flag, text) == IF cond THEN <<<<flag>>, text>> ELSE <<>>

(***************************************************************************)
(* The four cases of the CallTool handler, up to the call of               *)
(* runPythonCommand                                                        *)
(***************************************************************************)
\* The generate case with --height pushed before --width.
generateCaseHeightFirst(args) ==
    IF ~args.present THEN Throw(TypeError("prompt"))
    ELSE
    LET prompt == validateRequiredString(Prop(args, "prompt"), "prompt")
        width == validateNumber(Prop(args, "width"), "width", Whole(256), Whole(2048))
        height == validateNumber(Prop(args, "height"), "height", Whole(256), Whole(2048))
        cmdArgs ==
            <<<<"generate">>>>
            \o <<<<"--prompt">>, prompt.value.s>>
            \o PushIf(Truthy(Prop(args, "model")), "--model",
                      TemplateText(Prop(args, "model")))
            \o PushIf(Truthy(Prop(args, "aspect_ratio")), "--aspect-ratio",
                      TemplateText(Prop(args, "aspect_ratio")))
            \o PushIf(Truthy(height.value), "--height", NumberToString(height.value))
            \o PushIf(Truthy(width.value), "--width", NumberToString(width.value))
            \o PushIf(Truthy(Prop(args, "output")), "--output",
                      TemplateText(Prop(args, "output")))
    IN  Sequentially(<<prompt, width, height>>, Run(cmdArgs))

generateCase(args) ==
    IF ~args.present THEN Throw(TypeError("prompt"))
    ELSE
    LET prompt == validateRequiredString(Prop(args, "prompt"), "prompt")
        width == validateNumber(Prop(args, "width"), "width", Whole(256), Whole(2048))
        height == validateNumber(Prop(args, "height"), "height", Whole(256), Whole(2048))
        cmdArgs ==
            <<<<"generate">>>>
            \o <<<<"--prompt">>, prompt.value.s>>
            \o PushIf(Truthy(Prop(args, "model")), "--model",
                      TemplateText(Prop(args, "model")))
            \o PushIf(Truthy(Prop(args, "aspect_ratio")), "--aspect-ratio",
                      TemplateText(Prop(args, "aspect_ratio")))
            \o PushIf(Truthy(width.value), "--width", NumberToString(width.value))
            \o PushIf(Truthy(height.value), "--height", NumberToString(height.value))
            \o PushIf(Truthy(Prop(args, "output")), "--output",
                      TemplateText(Prop(args, "output")))
    IN  Sequentially(<<prompt, width, height>>, Run(cmdArgs))

img2imgCase(args) ==
    IF ~args.present THEN Throw(TypeError("image"))
    ELSE
    LET image == validateRequiredString(Prop(args, "image"), "image")
        prompt == validateRequiredString(Prop(args, "prompt"), "prompt")
        name == validateRequiredString(Prop(args, "name"), "name")
        strength == validateNumber(Prop(args, "strength"), "strength", Whole(0), Whole(1))
        width == validateNumber(Prop(args, "width"), "width", Whole(256), Whole(2048))
        height == validateNumber(Prop(args, "height"), "height", Whole(256), Whole(2048))
        cmdArgs ==
            <<<<"img2img">>>>
            \o <<<<"--image">>, image.value.s>>
            \o <<<<"--prompt">>, prompt.value.s>>
            \o <<<<"--name">>, name.value.s>>
            \o PushIf(Truthy(Prop(args, "model")), "--model",
                      TemplateText(Prop(args, "model")))
            \o PushIf(strength.value # Undefined, "--strength",
                      NumberToString(strength.value))
            \o PushIf(Truthy(width.value), "--width", NumberToString(width.value))
            \o PushIf(Truthy(height.value), "--height", NumberToString(height.value))
            \o PushIf(Truthy(Prop(args, "output")), "--output",
                      TemplateText(Prop(args, "output")))
    IN  Sequentially(<<image, prompt, name, strength, width, height>>, Run(cmdArgs))

inpaintCase(args) ==
    IF ~args.present THEN Throw(TypeError("image"))
    ELSE
    LET image == validateRequiredString(Prop(args, "image"), "image")
        prompt == validateRequiredString(Prop(args, "prompt"), "prompt")
        cmdArgs ==
            <<<<"inpaint">>>>
            \o <<<<"--image">>, image.value.s>>
            \o <<<<"--prompt">>, prompt.value.s>>
            \o PushIf(Truthy(Prop(args, "mask_shape")), "--mask-shape",
                      TemplateText(Prop(args, "mask_shape")))
            \o PushIf(Truthy(Prop(args, "position")), "--position",
                      TemplateText(Prop(args, "position")))
            \o PushIf(Truthy(Prop(args, "output")), "--output",
                      TemplateText(Prop(args, "output")))
    IN  Sequentially(<<image, prompt>>, Run(cmdArgs))

controlCase(args) ==
    IF ~args.present THEN Throw(TypeError("type"))
    ELSE
    LET type == validateRequiredString(Prop(args, "type"), "type")
        image == validateRequiredString(Prop(args, "image"), "image")
        prompt == validateRequiredString(Prop(args, "prompt"), "prompt")
        steps == validateNumber(Prop(args, "steps"), "steps", Whole(1), Whole(100))
        guidance == validateNumber(Prop(args, "guidance"), "guidance", Whole(0), Whole(100))
        cmdArgs ==
            <<<<"control">>>>
            \o <<<<"--type">>, type.value.s>>
            \o <<<<"--image">>, image.value.s>>
            \o <<<<"--prompt">>, prompt.value.s>>
            \o PushIf(Truthy(steps.value), "--steps", NumberToString(steps.value))
            \o PushIf(guidance.value # Undefined, "--guidance",
                      NumberToString(guidance.value))
            \o PushIf(Truthy(Prop(args, "output")), "--output",
                      TemplateText(Prop(args, "output")))
    IN  Sequentially(<<type, image, prompt, steps, guidance>>, Run(cmdArgs))

\* The switch on request.params.name: a throw, or the command vector to run.
toolCase(name, args) ==
    CASE name = "generate" -> generateCase(args)
      [] name = "img2img" -> img2imgCase(args)
      [] name = "inpaint" -> inpaintCase(args)
      [] name = "control" -> controlCase(args)
      [] OTHER -> Throw(McpError("MethodNotFound", <<"Unknown tool: ", name>>))

(***************************************************************************)
(* Responses                                                               *)
(***************************************************************************)
NoOutcome == [kind |-> "none", code |-> "none", isError |-> FALSE, text |-> <<>>]

\* A McpError rethrown by the handler: the SDK answers with a protocol error.
ProtocolError(err) ==
    [kind |-> "protocolError", code |-> err.code, isError |-> FALSE, text |-> err.message]

\* { content: [{ type: 'text', text: output }] }
SuccessResponse(text) ==
    [kind |-> "response", code |-> "none", isError |-> FALSE, text |-> text]

\* { content: [{ type: 'text', text }], isError: true }
ErrorResponse(text) ==
    [kind |-> "response", code |-> "none", isError |-> TRUE, text |-> text]

\* The catch clause that downgrades every error to an ErrorResponse.
catchClauseWrapsAll(err) == ErrorResponse(<<"Error: ">> \o err.message)

\* The catch clause of the handler.
catchClause(err) ==
    IF err.cls = "McpError" THEN ProtocolError(err)
    ELSE ErrorResponse(<<"Error: ">> \o err.message)

\* The close handler that reports the failure without the captured stderr.
closeSettlementDropsStderr(code, output, errorOutput) ==
    IF code = Whole(0) THEN Return(Str(output))
    ELSE Throw(Error(<<"Flux command failed (exit code ">> \o TemplateText(code)
                     \o <<"): ">>))

\* The close handler that resolves with both captured streams.
closeSettlementMixesStreams(code, output, errorOutput) ==
    IF code = Whole(0) THEN Return(Str(output \o errorOutput))
    ELSE Throw(Error(<<"Flux command failed (exit code ">> \o TemplateText(code)
                     \o <<"): ">> \o errorOutput))

\* childProcess.on('close'): how the promise settles, if it is still pending.
closeSettlement(code, output, errorOutput) ==
    IF code = Whole(0) THEN Return(Str(output))
    ELSE Throw(Error(<<"Flux command failed (exit code ">> \o TemplateText(code)
                     \o <<"): ">> \o errorOutput))

\* childProcess.on('error')
errorSettlement(message) ==
    Throw(Error(<<"Failed to spawn Python process: ">> \o message))

\* The `args` parameter of runPythonCommand: an array of strings, or nothing.
NoArgVector == [present |-> FALSE, items |-> <<>>]
ArgVector(items) == [present |-> TRUE, items |-> items]

NoSettlement == [kind |-> "none", value |-> Undefined, err |-> NoError]

\* runPythonCommand that spawns whatever it is given.
runPythonCommandUnguarded(args) ==
    [spawn |-> TRUE, settlement |-> NoSettlement]

\* The promise executor of runPythonCommand up to the spawn: an empty or
\* missing vector rejects at once and the executor returns before the spawn.
runPythonCommand(args) ==
    IF ~args.present \/ Len(args.items) = 0
    THEN [spawn |-> FALSE,
          settlement |-> Throw(Error(<<"No command arguments provided">>))]
    ELSE [spawn |-> TRUE, settlement |-> NoSettlement]

\* this.fluxPath = config?.fluxPath || process.env.FLUX_PATH || <default>
DefaultFluxPath == <<"/Users/speed/CascadeProjects/flux">>

constructorFluxPath(configFluxPath, envFluxPath) ==
    IF Truthy(configFluxPath) THEN configFluxPath.s
    ELSE IF Truthy(envFluxPath) THEN envFluxPath.s
    ELSE DefaultFluxPath

\* What the handler delivers once the promise of runPythonCommand has settled.
afterAwait(settlement) ==
    IF settlement.kind = "return" THEN SuccessResponse(settlement.value.s)
    ELSE catchClause(settlement.err)

(***************************************************************************)
(* Inputs: the calls a client makes and the events a child process emits   *)
(***************************************************************************)
OperationNames == {"generate", "img2img", "inpaint", "control"}

ToolNames == OperationNames \cup {"bogus", "Generate", ""}

RequiredFields(op) ==
    CASE op = "generate" -> {"prompt"}
      [] op = "img2img" -> {"image", "prompt", "name"}
      [] op = "inpaint" -> {"image", "prompt"}
      [] op = "control" -> {"type", "image", "prompt"}

FluxModels == {<<"flux.1.1-pro">>, <<"flux.1-pro">>, <<"flux.1-dev">>, <<"flux.1.1-ultra">>}
AspectRatios == {<<"1:1">>, <<"4:3">>, <<"3:4">>, <<"16:9">>, <<"9:16">>}
ControlTypes == {<<"canny">>, <<"depth">>, <<"pose">>}
MaskShapes == {<<"circle">>, <<"rectangle">>}
MaskPositions == {<<"center">>, <<"ground">>}

\* The values the type of an enumerated field allows.
EnumValues(op, f) ==
    CASE f = "model" -> FluxModels
      [] f = "aspect_ratio" -> AspectRatios
      [] f = "type" -> ControlTypes
      [] f = "mask_shape" -> MaskShapes
      [] f = "position" -> MaskPositions
      [] OTHER -> {}

\* The fields each case of the handler reads, in the order the argument
\* interface declares them.
SchemaOrder(op) ==
    CASE op = "generate" ->
          <<"prompt", "model", "aspect_ratio", "width", "height", "output">>
      [] op = "img2img" ->
          <<"image", "prompt", "name", "model", "strength", "width", "height", "output">>
      [] op = "inpaint" ->
          <<"image", "prompt", "mask_shape", "position", "output">>
      [] op = "control" ->
          <<"type", "image", "prompt", "steps", "guidance", "output">>

OpFields(op) == {SchemaOrder(op)[i] : i \in 1..Len(SchemaOrder(op))}

\* A valid text for each required field, different from field to field.
SampleText(f) ==
    CASE f = "prompt" -> <<"x">>
      [] f = "image" -> <<"i", ".", "p", "n", "g">>
      [] f = "name" -> <<"n">>
      [] f = "type" -> <<"canny">>

\* Every required field valid, every optional field absent.
MinimalProps(op) ==
    [f \in Fields |-> IF f \in RequiredFields(op) THEN Str(SampleText(f)) ELSE Undefined]

\* Values a client may send for a number field whose documented range is
\* lo..hi (integers): around both ends, inside, and values that are no number.
NumberInputs(lo, hi) ==
    {Undefined, Null, NaN, PosInfinity, NegInfinity, Str(<<"1", "0", "0">>),
     Whole(0), Whole(lo - 1), Num(lo * Denom - 1), Whole(lo),
     Num((lo * Denom + hi * Denom) \div 2),
     Whole(hi), Num(hi * Denom + 1), Whole(hi + 1)}

TextInputs ==
    {Undefined, Null, Whole(123), Str(<<>>), Str(<<" ", " ">>), Str(<<" ", "q", " ">>)}

\* The values tried for field f of operation op.
FieldInputs(op, f) ==
    IF f \in {"width", "height"} THEN NumberInputs(256, 2048) \cup {Whole(300)}
    ELSE IF f = "strength" THEN NumberInputs(0, 1)
    ELSE IF f = "steps" THEN NumberInputs(1, 100)
    ELSE IF f = "guidance" THEN NumberInputs(0, 100)
    ELSE IF f = "output"
    THEN {Undefined, Null, Str(<<>>), Str(<<"o", ".", "j", "p", "g">>)}
    ELSE IF f = "type"
    THEN TextInputs \cup {Str(v) : v \in ControlTypes} \cup {Str(<<"bogus">>)}
    ELSE IF f \in RequiredFields(op) THEN TextInputs \cup {Str(SampleText(f))}
    ELSE {Undefined, Null, Str(<<>>), Str(<<"bogus">>)}
         \cup {Str(v) : v \in EnumValues(op, f)}

\* A valid value for field f of operation op.
SampleValue(op, f) ==
    IF f \in RequiredFields(op) THEN Str(SampleText(f))
    ELSE IF f \in {"width", "height"} THEN Whole(512)
    ELSE IF f = "strength" THEN Num(Denom \div 2)
    ELSE IF f = "steps" THEN Whole(50)
    ELSE IF f = "guidance" THEN Num(7 * Denom + Denom \div 2)
    ELSE IF f = "output" THEN Str(<<"o", ".", "j", "p", "g">>)
    ELSE Str(CHOOSE v \in EnumValues(op, f) : TRUE)

\* Every field of the operation supplied with a valid value.
FullProps(op) ==
    [f \in Fields |-> IF f \in OpFields(op) THEN SampleValue(op, f) ELSE Undefined]

\* The payloads tried for an operation: no payload at all, the full payload,
\* and the minimal payload with any one or two of its fields replaced.
Payloads(op) ==
    {NoArguments, Arguments(FullProps(op))}
    \cup UNION {{Arguments([[MinimalProps(op) EXCEPT ![f1] = v1] EXCEPT ![f2] = v2]) :
                    v1 \in FieldInputs(op, f1), v2 \in FieldInputs(op, f2)} :
                f1 \in OpFields(op), f2 \in OpFields(op)}

\* The payloads tried with a tool name.
PayloadsOf(name) ==
    IF name \in OperationNames THEN Payloads(name)
    ELSE {NoArguments, Arguments(MinimalProps("generate")),
          Arguments(FullProps("control"))}

\* Chunks a child writes to its standard output and to its standard error.
StdoutChunks == {<<"o", "k">>, <<"j">>}
StderrChunks == {<<"b", "o", "o", "m">>}

\* Exit codes of a child that ran: 0, 1, and null for a child a signal killed.
ExitCodes == {Whole(0), Whole(1), Null}

\* Why a child could not be started: the message of the error event and the
\* (negative) code of the close event that follows it.
SpawnFailures ==
    {[message |-> <<"spawn python3 ENOENT">>, code |-> Whole(0 - 2)],
     [message |-> <<"spawn python3 EACCES">>, code |-> Whole(0 - 13)]}

(***************************************************************************)
(* State                                                                   *)
(***************************************************************************)
Slots == {1, 2}
\* The slot of the calls a client makes one after another.
SerialSlots == {1}

VARIABLES
    fluxPath,     \* this.fluxPath
    phase,        \* per slot: "idle", "pending" (the handler awaits the child),
                  \* "executing" (runPythonCommand on its own) or "done"
    request,      \* per slot: [name, args] of the call being handled
    execArgs,     \* per slot: the vector runPythonCommand was given
    cmd,          \* per slot: the command vector of the spawn; <<>> before it
    cwd,          \* per slot: the working directory of the spawn; <<>> before it
    spawns,       \* per slot: child processes spawned for the call
    child,        \* per slot: "none", "running", "failed" or "closed"
    output,       \* per slot: runPythonCommand's `output`
    errorOutput,  \* per slot: runPythonCommand's `errorOutput`
    promise,      \* per slot: "none", "pending", "resolved" or "rejected"
    settled,      \* per slot: what the promise resolved or rejected with
    outcome,      \* per slot: what the call delivered to the client
    events,       \* per slot: what the child emitted (history)
    failed,       \* calls that ended in a failure so far (history)
    probe         \* a validator applied on its own: its inputs and its result

callVars == <<fluxPath, phase, request, execArgs, cmd, cwd, spawns, child, output,
              errorOutput, promise, settled, outcome, events, failed>>

vars == <<callVars, probe>>

NoRequest == [name |-> "", args |-> NoArguments]

NoEvents ==
    [stdout |-> <<>>, stderr |-> <<>>, error |-> <<>>, close |-> <<>>]

NoProbe ==
    [fn |-> "none", value |-> Undefined, min |-> Undefined, max |-> Undefined,
     applied |-> FALSE, result |-> Return(Undefined)]

NoCalls ==
    /\ phase = [c \in Slots |-> "idle"]
    /\ request = [c \in Slots |-> NoRequest]
    /\ execArgs = [c \in Slots |-> NoArgVector]
    /\ cmd = [c \in Slots |-> <<>>]
    /\ cwd = [c \in Slots |-> <<>>]
    /\ spawns = [c \in Slots |-> 0]
    /\ child = [c \in Slots |-> "none"]
    /\ output = [c \in Slots |-> <<>>]
    /\ errorOutput = [c \in Slots |-> <<>>]
    /\ promise = [c \in Slots |-> "none"]
    /\ settled = [c \in Slots |-> NoSettlement]
    /\ outcome = [c \in Slots |-> NoOutcome]
    /\ events = [c \in Slots |-> NoEvents]
    /\ failed = 0

\* The server as its constructor leaves it, given config.fluxPath and
\* process.env.FLUX_PATH.
Constructed(configFluxPath, envFluxPath) ==
    /\ fluxPath = constructorFluxPath(configFluxPath, envFluxPath)
    /\ NoCalls

\* Started with neither a configured path nor FLUX_PATH.
Init == Constructed(Undefined, Undefined) /\ probe = NoProbe

(***************************************************************************)
(* runPythonCommand and the CallTool handler                               *)
(***************************************************************************)
\* runPythonCommand(args) from its entry to the return of the promise
\* executor: the promise is rejected at once, or the child is spawned in
\* this.fluxPath and the promise is left pending.
Execute(c, args) ==
    LET start == runPythonCommand(args)
    IN  /\ execArgs' = [execArgs EXCEPT ![c] = args]
        /\ IF ~start.spawn
           THEN /\ promise' = [promise EXCEPT ![c] = "rejected"]
                /\ settled' = [settled EXCEPT ![c] = start.settlement]
                /\ UNCHANGED <<cmd, cwd, spawns, child>>
           ELSE /\ cmd' = [cmd EXCEPT ![c] = args.items]
                /\ cwd' = [cwd EXCEPT ![c] = fluxPath]
                /\ spawns' = [spawns EXCEPT ![c] = @ + 1]
                /\ child' = [child EXCEPT ![c] = "running"]
                /\ promise' = [promise EXCEPT ![c] = "pending"]
                /\ UNCHANGED settled

\* The handler from its entry to its first suspension: it throws, or it
\* reaches runPythonCommand, which rejects an empty vector and otherwise
\* spawns the child and leaves the handler awaiting the promise.
CallTool(c, name, args) ==
    /\ phase[c] = "idle"
    /\ request' = [request EXCEPT ![c] = [name |-> name, args |-> args]]
    /\ LET step == toolCase(name, args)
       IN  IF step.kind = "throw"
           THEN /\ phase' = [phase EXCEPT ![c] = "done"]
                /\ outcome' = [outcome EXCEPT ![c] = catchClause(step.err)]
                /\ UNCHANGED <<execArgs, cmd, cwd, spawns, child, promise, settled>>
           ELSE LET start == runPythonCommand(ArgVector(step.cmdArgs))
                IN  /\ Execute(c, ArgVector(step.cmdArgs))
                    /\ IF ~start.spawn
                       THEN /\ phase' = [phase EXCEPT ![c] = "done"]
                            /\ outcome' = [outcome EXCEPT ![c] =
                                             afterAwait(start.settlement)]
                       ELSE /\ phase' = [phase EXCEPT ![c] = "pending"]
                            /\ UNCHANGED outcome
    /\ UNCHANGED <<fluxPath, failed, output, errorOutput, events, probe>>

\* runPythonCommand called on its own, with no handler awaiting it.
RunPythonCommand(c, args) ==
    /\ phase[c] = "idle"
    /\ Execute(c, args)
    /\ phase' = [phase EXCEPT ![c] =
                   IF runPythonCommand(args).spawn THEN "executing" ELSE "done"]
    /\ UNCHANGED <<fluxPath, failed, request, output, errorOutput, outcome, events,
                   probe>>

\* A promise that every resolve or reject settles anew.
SettleAgain(c, settlement) ==
    /\ promise' = [promise EXCEPT ![c] =
                     IF settlement.kind = "return" THEN "resolved" ELSE "rejected"]
    /\ settled' = [settled EXCEPT ![c] = settlement]
    /\ outcome' = [outcome EXCEPT ![c] =
                     IF request[c] # NoRequest THEN afterAwait(settlement) ELSE @]
    /\ phase' = [phase EXCEPT ![c] = "done"]

\* resolve / reject of the promise, and the continuation of the handler that
\* awaits it.  A promise that has settled ignores every later resolve or
\* reject.
Settle(c, settlement) ==
    IF promise[c] = "pending"
    THEN /\ promise' = [promise EXCEPT ![c] =
                          IF settlement.kind = "return" THEN "resolved" ELSE "rejected"]
         /\ settled' = [settled EXCEPT ![c] = settlement]
         /\ outcome' = [outcome EXCEPT ![c] =
                          IF phase[c] = "pending" THEN afterAwait(settlement) ELSE @]
         /\ phase' = [phase EXCEPT ![c] = "done"]
    ELSE UNCHANGED <<promise, settled, outcome, phase>>

DataEvents(c) == Len(events[c].stdout) + Len(events[c].stderr)

\* The stdout handler appending to one buffer that all calls share.
StdoutDataShared(c, data) ==
    /\ child[c] = "running"
    /\ DataEvents(c) < MaxChunks
    /\ output' = [k \in Slots |-> output[k] \o data]
    /\ events' = [events EXCEPT ![c].stdout = Append(@, data)]
    /\ UNCHANGED <<fluxPath, failed, phase, request, execArgs, cmd, cwd, spawns, child,
                   errorOutput, promise, settled, outcome, probe>>

\* childProcess.stdout.on('data')
StdoutData(c, data) ==
    /\ child[c] = "running"
    /\ DataEvents(c) < MaxChunks
    /\ output' = [output EXCEPT ![c] = @ \o data]
    /\ events' = [events EXCEPT ![c].stdout = Append(@, data)]
    /\ UNCHANGED <<fluxPath, failed, phase, request, execArgs, cmd, cwd, spawns, child,
                   errorOutput, promise, settled, outcome, probe>>

\* childProcess.stderr.on('data')
StderrData(c, data) ==
    /\ child[c] = "running"
    /\ DataEvents(c) < MaxChunks
    /\ errorOutput' = [errorOutput EXCEPT ![c] = @ \o data]
    /\ events' = [events EXCEPT ![c].stderr = Append(@, data)]
    /\ UNCHANGED <<fluxPath, failed, phase, request, execArgs, cmd, cwd, spawns, child,
                   output, promise, settled, outcome, probe>>

\* childProcess.on('error'): the child could not be started, so it has
\* written nothing.
ChildError(c, failure) ==
    /\ child[c] = "running"
    /\ DataEvents(c) = 0
    /\ child' = [child EXCEPT ![c] = "failed"]
    /\ events' = [events EXCEPT ![c].error = <<failure>>]
    /\ Settle(c, errorSettlement(failure.message))
    /\ UNCHANGED <<fluxPath, failed, request, execArgs, cmd, cwd, spawns, output,
                   errorOutput, probe>>

\* childProcess.on('close'): after the exit of a child that ran, or after the
\* error event of one that could not be started (with its negative code).
ChildClose(c, code) ==
    /\ \/ child[c] = "running" /\ code \in ExitCodes
       \/ child[c] = "failed" /\ code = events[c].error[1].code
    /\ child' = [child EXCEPT ![c] = "closed"]
    /\ events' = [events EXCEPT ![c].close = <<code>>]
    /\ Settle(c, closeSettlement(code, output[c], errorOutput[c]))
    /\ UNCHANGED <<fluxPath, failed, request, execArgs, cmd, cwd, spawns, output,
                   errorOutput, probe>>

\* The captured streams kept in the server object from call to call.
ForgetKeepsOutput(c) ==
    /\ request' = [request EXCEPT ![c] = NoRequest]
    /\ execArgs' = [execArgs EXCEPT ![c] = NoArgVector]
    /\ cmd' = [cmd EXCEPT ![c] = <<>>]
    /\ cwd' = [cwd EXCEPT ![c] = <<>>]
    /\ spawns' = [spawns EXCEPT ![c] = 0]
    /\ child' = [child EXCEPT ![c] = "none"]
    /\ UNCHANGED <<output, errorOutput>>
    /\ promise' = [promise EXCEPT ![c] = "none"]
    /\ settled' = [settled EXCEPT ![c] = NoSettlement]
    /\ outcome' = [outcome EXCEPT ![c] = NoOutcome]
    /\ events' = [events EXCEPT ![c] = NoEvents]

\* Nothing of a call outlives it: `output` and `errorOutput` are locals of
\* runPythonCommand, the promise and the child belong to the one invocation,
\* and the handler keeps nothing in the server object.
Forget(c) ==
    /\ request' = [request EXCEPT ![c] = NoRequest]
    /\ execArgs' = [execArgs EXCEPT ![c] = NoArgVector]
    /\ cmd' = [cmd EXCEPT ![c] = <<>>]
    /\ cwd' = [cwd EXCEPT ![c] = <<>>]
    /\ spawns' = [spawns EXCEPT ![c] = 0]
    /\ child' = [child EXCEPT ![c] = "none"]
    /\ output' = [output EXCEPT ![c] = <<>>]
    /\ errorOutput' = [errorOutput EXCEPT ![c] = <<>>]
    /\ promise' = [promise EXCEPT ![c] = "none"]
    /\ settled' = [settled EXCEPT ![c] = NoSettlement]
    /\ outcome' = [outcome EXCEPT ![c] = NoOutcome]
    /\ events' = [events EXCEPT ![c] = NoEvents]

\* The call is over and its child is gone: the slot takes the next call.
NextCall(c) ==
    /\ phase[c] = "done"
    /\ child[c] \in {"none", "closed"}
    /\ phase' = [phase EXCEPT ![c] = "idle"]
    /\ Forget(c)
    /\ UNCHANGED <<fluxPath, failed, probe>>

Call == \E c \in SerialSlots :
            /\ phase[c] = "idle"
            /\ \E name \in ToolNames : \E args \in PayloadsOf(name) :
                  CallTool(c, name, args)
Stdout == \E c \in SerialSlots, data \in StdoutChunks : StdoutData(c, data)
Stderr == \E c \in SerialSlots, data \in StderrChunks : StderrData(c, data)
SpawnError == \E c \in SerialSlots, failure \in SpawnFailures : ChildError(c, failure)
Close == \E c \in SerialSlots, code \in ExitCodes \cup {f.code : f \in SpawnFailures} :
            ChildClose(c, code)
Finish == \E c \in SerialSlots : NextCall(c)

Next == Call \/ Stdout \/ Stderr \/ SpawnError \/ Close \/ Finish

Spec == Init /\ [][Next]_vars

(***************************************************************************)
(* runPythonCommand on its own                                             *)
(***************************************************************************)
\* The vectors runPythonCommand is tried with: none, the empty one, and
\* vectors the handler builds.
ArgVectors ==
    {NoArgVector, ArgVector(<<>>), ArgVector(<<<<"generate">>>>)}
    \cup {ArgVector(toolCase(op, Arguments(MinimalProps(op))).cmdArgs) :
            op \in OperationNames}

RunCommand == \E c \in SerialSlots :
                  /\ phase[c] = "idle"
                  /\ \E args \in ArgVectors : RunPythonCommand(c, args)

NextExecutor == RunCommand \/ Stdout \/ Stderr \/ SpawnError \/ Close \/ Finish

SpecExecutor == Init /\ [][NextExecutor]_vars

(***************************************************************************)
(* Vocabulary of the claims                                                *)
(***************************************************************************)
\* The call in slot c has been taken up by the handler.
Started(c) == phase[c] # "idle"

\* A value a required string field rejects: no string, empty, or blank.
NotARequiredString(v) ==
    \/ v.t # "string"
    \/ \A i \in 1..Len(v.s) : v.s[i] = " "

NumberFields == {"width", "height", "strength", "steps", "guidance"}

\* The documented range of a number field, in whole numbers.
TableRange(f) ==
    CASE f \in {"width", "height"} -> <<256, 2048>>
      [] f = "strength" -> <<0, 1>>
      [] f = "steps" -> <<1, 100>>
      [] f = "guidance" -> <<0, 100>>

Absent(v) == v \in {Undefined, Null}

\* A value a number field rejects: present and no number, NaN, infinite, or
\* outside the documented range (which includes both ends).
NotAnAcceptedNumber(f, v) ==
    /\ ~Absent(v)
    /\ \/ v.t # "number"
       \/ v.n < TableRange(f)[1] * Denom
       \/ v.n > TableRange(f)[2] * Denom

\* The call fails at the protocol level with the given code and spawns nothing.
FailsAtProtocolLevel(c, code) ==
    /\ phase[c] = "done"
    /\ outcome[c].kind = "protocolError"
    /\ outcome[c].code = code
    /\ spawns[c] = 0
    /\ child[c] = "none"

\* C1 (as claimed): a call of one of the four operations whose payload is
\* missing, or has a required field that is absent, no string, empty or blank,
\* or a number field that is invalid, ends as the protocol error
\* InvalidArgument, never as a response, and spawns nothing.
C1_InvalidCallIsProtocolError ==
    \A c \in Slots :
        LET name == request[c].name
            args == request[c].args
        IN  (/\ Started(c)
             /\ name \in OperationNames
             /\ \/ ~args.present
                \/ \E f \in RequiredFields(name) : NotARequiredString(Prop(args, f))
                \/ \E f \in OpFields(name) \cap NumberFields :
                      NotAnAcceptedNumber(f, Prop(args, f)))
            => FailsAtProtocolLevel(c, "InvalidParams")

\* C2: a call whose tool name is none of generate, img2img, inpaint, control
\* fails at the protocol level with MethodNotFound whatever its payload; it
\* yields no response and spawns no process.
C2_UnknownOperationIsProtocolError ==
    \A c \in Slots :
        (Started(c) /\ request[c].name \notin {"generate", "img2img", "inpaint", "control"})
            => FailsAtProtocolLevel(c, "MethodNotFound")

C2_Witness ==
    \E c \in Slots :
        /\ request[c].name = "bogus"
        /\ ~request[c].args.present
        /\ outcome[c].kind = "protocolError"

\* The text of an exit code as a reader of the message expects it.
ExitCodeText(code) ==
    CASE code = Whole(1) -> <<"1">>
      [] code = Null -> <<"null">>
      [] code = Whole(0 - 2) -> <<"-", "2">>
      [] code = Whole(0 - 13) -> <<"-", "1", "3">>

\* C3: after validation has passed, a child that could not be started, or
\* that closed with a nonzero code, makes the call return an ErrorResponse,
\* never a protocol error; the text holds the reason of the spawn failure,
\* or the exit code and all the standard-error text received.
C3_ExecutionFailureIsErrorResponse ==
    \A c \in Slots :
        /\ events[c].error # <<>> =>
              /\ outcome[c].kind = "response"
              /\ outcome[c].isError
              /\ Contains(outcome[c].text, events[c].error[1].message)
        /\ (events[c].error = <<>> /\ events[c].close # <<>>
              /\ events[c].close[1] # Whole(0)) =>
              /\ outcome[c].kind = "response"
              /\ outcome[c].isError
              /\ Contains(outcome[c].text, ExitCodeText(events[c].close[1]))
              /\ Contains(outcome[c].text, Concat(events[c].stderr))

C3_Witness ==
    \E c \in Slots :
        /\ events[c].close = <<Whole(1)>>
        /\ events[c].stderr = <<<<"b", "o", "o", "m">>>>
        /\ events[c].stdout # <<>>
        /\ outcome[c].isError

\* C4: when the child closes with exit code 0 the call returns a
\* SuccessResponse whose text is the standard-output chunks joined in the
\* order they arrived, however the chunks of the two streams interleave, and
\* no standard-error chunk occurs in it.
C4_SuccessTextIsStdout ==
    \A c \in Slots :
        events[c].close = <<Whole(0)>> =>
            /\ outcome[c].kind = "response"
            /\ ~outcome[c].isError
            /\ outcome[c].text = Concat(events[c].stdout)
            /\ \A i \in 1..Len(events[c].stderr) :
                  ~Contains(outcome[c].text, events[c].stderr[i])

C4_Witness ==
    \E c \in Slots :
        /\ events[c].close = <<Whole(0)>>
        /\ Len(events[c].stdout) >= 1
        /\ Len(events[c].stderr) >= 1
        /\ outcome[c].kind = "response"

\* The enumerated fields of each operation.
EnumFields(op) ==
    CASE op = "generate" -> {"model", "aspect_ratio"}
      [] op = "img2img" -> {"model"}
      [] op = "inpaint" -> {"mask_shape", "position"}
      [] op = "control" -> {"type"}

\* C5 (as claimed): a call that supplies, for an enumerated field, a value
\* outside the field's allowed set fails with InvalidArgument and spawns no
\* process.
C5_EnumOutsideSetIsRejected ==
    \A c \in Slots :
        LET name == request[c].name
            args == request[c].args
        IN  (/\ Started(c)
             /\ name \in OperationNames
             /\ args.present
             /\ \E f \in EnumFields(name) :
                   /\ ~Absent(Prop(args, f))
                   /\ Prop(args, f) \notin {Str(v) : v \in EnumValues(name, f)})
            => FailsAtProtocolLevel(c, "InvalidParams")

\* The flag of a field: two hyphens and the field's name, hyphenated.
FlagOf(f) ==
    CASE f = "aspect_ratio" -> <<"--aspect-ratio">>
      [] f = "mask_shape" -> <<"--mask-shape">>
      [] f = "prompt" -> <<"--prompt">>
      [] f = "model" -> <<"--model">>
      [] f = "width" -> <<"--width">>
      [] f = "height" -> <<"--height">>
      [] f = "output" -> <<"--output">>
      [] f = "image" -> <<"--image">>
      [] f = "name" -> <<"--name">>
      [] f = "strength" -> <<"--strength">>
      [] f = "position" -> <<"--position">>
      [] f = "type" -> <<"--type">>
      [] f = "steps" -> <<"--steps">>
      [] f = "guidance" -> <<"--guidance">>

\* A supplied value that the rule of field f of operation op accepts.
SuppliedAndValid(op, f, v) ==
    /\ ~Absent(v)
    /\ IF f \in NumberFields THEN ~NotAnAcceptedNumber(f, v)
       ELSE IF f \in RequiredFields(op) THEN ~NotARequiredString(v)
       ELSE IF f \in EnumFields(op) THEN v \in {Str(e) : e \in EnumValues(op, f)}
       ELSE v.t = "string"

\* A supplied value as text: a string as it is, a number in decimal.
RenderedAsText(v) == IF v.t = "string" THEN v.s ELSE NumberToString(v)

\* flag occurs in the vector, followed by text.
HasPair(vector, flag, text) ==
    \E i \in 1..(Len(vector) - 1) : vector[i] = flag /\ vector[i + 1] = text

\* C6 (as claimed): in the command vector of a call, every field supplied
\* with a value that passes validation has its flag followed by the value as
\* text; a present falsy value is not taken for an absent one.
C6_SuppliedFieldIsEmitted ==
    \A c \in Slots :
        LET name == request[c].name
            args == request[c].args
        IN  (name \in OperationNames /\ cmd[c] # <<>>)
            => \A f \in OpFields(name) :
                  SuppliedAndValid(name, f, Prop(args, f))
                  => HasPair(cmd[c], FlagOf(f), RenderedAsText(Prop(args, f)))

RequiredCount(op) ==
    CASE op = "generate" -> 1
      [] op = "img2img" -> 3
      [] op = "inpaint" -> 2
      [] op = "control" -> 3

\* C7: a call with every required field present and every optional field
\* absent spawns with a command vector of 1 + 2 x (number of required
\* fields) tokens in which no flag of an optional field occurs.
C7_NoDefaultIsInjected ==
    \A c \in Slots :
        LET name == request[c].name
            args == request[c].args
        IN  (/\ Started(c)
             /\ name \in OperationNames
             /\ args.present
             /\ \A f \in RequiredFields(name) : ~NotARequiredString(Prop(args, f))
             /\ \A f \in OpFields(name) \ RequiredFields(name) :
                   Prop(args, f) = Undefined)
            => /\ spawns[c] = 1
               /\ Len(cmd[c]) = 1 + 2 * RequiredCount(name)
               /\ \A f \in OpFields(name) \ RequiredFields(name) :
                     \A i \in 1..Len(cmd[c]) : cmd[c][i] # FlagOf(f)

C7_Witness ==
    \E c \in Slots :
        /\ request[c].name = "img2img"
        /\ request[c].args = Arguments(MinimalProps("img2img"))
        /\ Len(cmd[c]) = 7

\* The place of a flag in the declared order of the operation; 0 if none.
PlaceOf(op, flag) ==
    IF \E k \in 1..Len(SchemaOrder(op)) : FlagOf(SchemaOrder(op)[k]) = flag
    THEN CHOOSE k \in 1..Len(SchemaOrder(op)) : FlagOf(SchemaOrder(op)[k]) = flag
    ELSE 0

\* C8: the command vector starts with the operation name, followed by
\* flag/value pairs whose flags follow the declared order of the fields;
\* generate with {prompt: "x", width: 300} yields exactly
\* generate --prompt x --width 300, and so does every such call.
C8_VectorFollowsDeclaredOrder ==
    \A c \in Slots :
        LET name == request[c].name
            args == request[c].args
            n == Len(cmd[c])
        IN  cmd[c] # <<>> =>
            /\ cmd[c][1] = <<name>>
            /\ n % 2 = 1
            /\ \A j \in 1..(n \div 2) : PlaceOf(name, cmd[c][2 * j]) > 0
            /\ \A j \in 1..(n \div 2 - 1) :
                  PlaceOf(name, cmd[c][2 * j]) < PlaceOf(name, cmd[c][2 * j + 2])
            /\ (name = "generate"
                  /\ args = Arguments([MinimalProps("generate") EXCEPT !["width"] = Whole(300)]))
               => cmd[c] = <<<<"generate">>, <<"--prompt">>, <<"x">>,
                             <<"--width">>, <<"3", "0", "0">>>>

C8_Witness ==
    \E c \in Slots :
        /\ request[c].name = "generate"
        /\ request[c].args = Arguments([MinimalProps("generate") EXCEPT !["width"] = Whole(300)])
        /\ Len(cmd[c]) = 5

(***************************************************************************)
(* A validator applied on its own                                          *)
(***************************************************************************)
\* Values, lower bounds and upper bounds handed to validateNumber; Undefined
\* as a bound is a bound the caller leaves out.
ProbeValues == NumberInputs(0, 100) \cup {Whole(1), Whole(2)}
ProbeMins == {Undefined, Whole(0), Whole(1)}
ProbeMaxs == {Undefined, Whole(1), Whole(100)}

\* Values handed to validateRequiredString.
ProbeTexts ==
    TextInputs
    \cup {Str(<<"\t">>), Str(<<" ", "\n", "\t">>), Str(<<"q", " ">>),
          Str(<<"\n", "a", " ", "b">>), Str(<<"v", "a", "l", "i", "d">>),
          NaN, Whole(0)}

InitProbe ==
    /\ Constructed(Undefined, Undefined)
    /\ \/ \E value \in ProbeValues, min \in ProbeMins, max \in ProbeMaxs :
             probe = [fn |-> "validateNumber", value |-> value, min |-> min,
                      max |-> max, applied |-> FALSE, result |-> Return(Undefined)]
       \/ \E value \in ProbeTexts :
             probe = [fn |-> "validateRequiredString", value |-> value,
                      min |-> Undefined, max |-> Undefined, applied |-> FALSE,
                      result |-> Return(Undefined)]

ApplyValidateNumber ==
    /\ probe.fn = "validateNumber"
    /\ ~probe.applied
    /\ probe' = [probe EXCEPT
                   !.applied = TRUE,
                   !.result = validateNumber(probe.value, "f", probe.min, probe.max)]
    /\ UNCHANGED callVars

ApplyValidateRequiredString ==
    /\ probe.fn = "validateRequiredString"
    /\ ~probe.applied
    /\ probe' = [probe EXCEPT
                   !.applied = TRUE,
                   !.result = validateRequiredString(probe.value, "f")]
    /\ UNCHANGED callVars

NextProbe == ApplyValidateNumber \/ ApplyValidateRequiredString

SpecProbe == InitProbe /\ [][NextProbe]_vars

ThrowsInvalidParams(r) ==
    r.kind = "throw" /\ r.err.cls = "McpError" /\ r.err.code = "InvalidParams"

\* C9 (as claimed): validateNumber returns absent exactly for null and
\* undefined; a present value that is no number, is NaN or is not finite, or
\* lies below a supplied min or above a supplied max, fails with
\* InvalidArgument; any other value is returned unchanged.
C9_ValidateOptionalNumber ==
    (probe.fn = "validateNumber" /\ probe.applied) =>
        LET v == probe.value
            r == probe.result
        IN  IF v \in {Undefined, Null} THEN r = Return(Undefined)
            ELSE IF \/ v.t # "number"
                    \/ probe.min # Undefined /\ v.n < probe.min.n
                    \/ probe.max # Undefined /\ v.n > probe.max.n
            THEN ThrowsInvalidParams(r)
            ELSE r = Return(v)

\* The number fields of a payload that validation rejects, by their place in
\* the declared order.
RejectedNumberPlaces(op, args) ==
    {k \in 1..Len(SchemaOrder(op)) :
        /\ SchemaOrder(op)[k] \in NumberFields
        /\ NotAnAcceptedNumber(SchemaOrder(op)[k], Prop(args, SchemaOrder(op)[k]))}

Least(S) == CHOOSE k \in S : \A j \in S : k <= j

\* C10: the handler accepts a number exactly within the documented range of
\* its field, both ends included (width and height 256..2048, strength 0..1,
\* steps 1..100, guidance 0..100): with the required fields valid, the call
\* spawns if every supplied number is in range, and otherwise fails with
\* InvalidArgument whose message names the first field out of range.
C10_RangesAreInclusive ==
    \A c \in Slots :
        LET name == request[c].name
            args == request[c].args
            bad == RejectedNumberPlaces(name, args)
        IN  (/\ Started(c)
             /\ name \in OperationNames
             /\ args.present
             /\ \A f \in RequiredFields(name) : ~NotARequiredString(Prop(args, f)))
            => IF bad = {}
               THEN spawns[c] = 1 /\ outcome[c].kind # "protocolError"
               ELSE /\ FailsAtProtocolLevel(c, "InvalidParams")
                    /\ outcome[c].text[1] = SchemaOrder(name)[Least(bad)]

C10_Witness ==
    \E c \in Slots :
        /\ request[c].name = "img2img"
        /\ Prop(request[c].args, "width") = Whole(2048)
        /\ Prop(request[c].args, "strength") = Whole(0)
        /\ spawns[c] = 1

\* C11: validateRequiredString fails with InvalidArgument unless the value is
\* a string with a character that is not white space (null, undefined,
\* numbers, the empty string and blank strings fail), and returns an accepted
\* value as it was given, untrimmed.
C11_ValidateRequiredString ==
    (probe.fn = "validateRequiredString" /\ probe.applied) =>
        LET v == probe.value
            r == probe.result
        IN  IF v.t = "string" /\ \E i \in 1..Len(v.s) : v.s[i] \notin {" ", "\t", "\n"}
            THEN r = Return(v)
            ELSE ThrowsInvalidParams(r)

C11_Witness ==
    /\ probe.fn = "validateRequiredString"
    /\ probe.applied
    /\ probe.value = Str(<<" ", "q", " ">>)
    /\ probe.result.kind = "return"
    /\ probe.result.value.s = <<" ", "q", " ">>

(***************************************************************************)
(* Calls one after another, with the failures so far counted               *)
(***************************************************************************)
\* The client saw the call fail: a protocol error or an ErrorResponse.
Failed(o) == o.kind = "protocolError" \/ (o.kind = "response" /\ o.isError)

\* NextCall, with the failure of the call that ends counted.
NextCallCounting(c) ==
    /\ phase[c] = "done"
    /\ child[c] \in {"none", "closed"}
    /\ phase' = [phase EXCEPT ![c] = "idle"]
    /\ Forget(c)
    /\ failed' = IF Failed(outcome[c]) /\ failed < MaxFailed THEN failed + 1 ELSE failed
    /\ UNCHANGED <<fluxPath, probe>>

\* The calls of a sequence: valid ones, and ones that fail before the spawn
\* with a protocol error or with a TypeError.
SequenceCalls ==
    {[name |-> op, args |-> Arguments(MinimalProps(op))] : op \in OperationNames}
    \cup {[name |-> "generate", args |-> NoArguments],
          [name |-> "bogus", args |-> NoArguments],
          [name |-> "generate",
           args |-> Arguments([MinimalProps("generate") EXCEPT !["width"] = Whole(100)])],
          [name |-> "inpaint",
           args |-> Arguments([MinimalProps("inpaint") EXCEPT !["image"] = Null])]}

CallInSequence == \E c \in SerialSlots :
                      /\ phase[c] = "idle"
                      /\ \E call \in SequenceCalls : CallTool(c, call.name, call.args)
FinishCounting == \E c \in SerialSlots : NextCallCounting(c)

NextSequence ==
    CallInSequence \/ Stdout \/ Stderr \/ SpawnError \/ Close \/ FinishCounting

SpecSequence == Init /\ [][NextSequence]_vars

\* The error raised while the call in slot c was handled, NoError if none:
\* thrown by the switch, or the rejection of runPythonCommand.
RaisedError(c) ==
    LET step == toolCase(request[c].name, request[c].args)
    IN  IF step.kind = "throw" THEN step.err ELSE settled[c].err

\* What the call in slot c delivers, told from its own request and from the
\* events of its own child alone.
OwnOutcome(c) ==
    LET step == toolCase(request[c].name, request[c].args)
        ev == events[c]
    IN  IF step.kind = "throw"
        THEN IF step.err.cls = "McpError"
             THEN [kind |-> "protocolError", code |-> step.err.code,
                   isError |-> FALSE, text |-> step.err.message]
             ELSE [kind |-> "response", code |-> "none", isError |-> TRUE,
                   text |-> <<"Error: ">> \o step.err.message]
        ELSE IF ev.error # <<>>
        THEN [kind |-> "response", code |-> "none", isError |-> TRUE,
              text |-> <<"Error: ", "Failed to spawn Python process: ">>
                       \o ev.error[1].message]
        ELSE IF ev.close = <<>> THEN NoOutcome
        ELSE IF ev.close[1] = Whole(0)
        THEN [kind |-> "response", code |-> "none", isError |-> FALSE,
              text |-> Concat(ev.stdout)]
        ELSE [kind |-> "response", code |-> "none", isError |-> TRUE,
              text |-> <<"Error: ", "Flux command failed (exit code ">>
                       \o ExitCodeText(ev.close[1]) \o <<"): ">> \o Concat(ev.stderr)]

\* C13: an error raised while a call is handled that is no McpError becomes an
\* ErrorResponse whose text carries the error's message; and however many
\* calls failed before, a call delivers what its own request and its own
\* child's events determine.
C13_FailuresLeaveNothingBehind ==
    \A c \in Slots :
        Started(c) =>
            /\ (RaisedError(c).cls \notin {"none", "McpError"}) =>
                  /\ outcome[c].kind = "response"
                  /\ outcome[c].isError
                  /\ outcome[c].text = <<"Error: ">> \o RaisedError(c).message
            /\ outcome[c] = OwnOutcome(c)

C13_Witness ==
    /\ failed = MaxFailed
    /\ phase[1] = "done"
    /\ events[1].stderr # <<>>
    /\ RaisedError(1).cls = "Error"
    /\ outcome[1] = ErrorResponse(<<"Error: ">> \o RaisedError(1).message)

(***************************************************************************)
(* Calls in flight together                                                *)
(***************************************************************************)
\* config.fluxPath and process.env.FLUX_PATH at startup: absent, empty, set.
ConfigFluxPaths == {Undefined, Str(<<>>), Str(<<"/opt/flux">>)}
EnvFluxPaths == {Undefined, Str(<<"/srv/flux">>)}

InitConcurrent ==
    /\ \E configFluxPath \in ConfigFluxPaths, envFluxPath \in EnvFluxPaths :
          Constructed(configFluxPath, envFluxPath)
    /\ probe = NoProbe

\* The calls made while another is in flight.
ConcurrentCalls ==
    {[name |-> "generate", args |-> Arguments(MinimalProps("generate"))],
     [name |-> "control", args |-> Arguments(MinimalProps("control"))],
     [name |-> "generate", args |-> NoArguments],
     [name |-> "bogus", args |-> NoArguments]}

CallOf == \E c \in Slots :
              /\ phase[c] = "idle"
              /\ \E call \in ConcurrentCalls : CallTool(c, call.name, call.args)
StdoutOf == \E c \in Slots, data \in StdoutChunks : StdoutData(c, data)
StderrOf == \E c \in Slots, data \in StderrChunks : StderrData(c, data)
SpawnErrorOf == \E c \in Slots, failure \in SpawnFailures : ChildError(c, failure)
CloseOf == \E c \in Slots, code \in ExitCodes \cup {f.code : f \in SpawnFailures} :
               ChildClose(c, code)
FinishOf == \E c \in Slots : NextCall(c)

NextConcurrent ==
    CallOf \/ StdoutOf \/ StderrOf \/ SpawnErrorOf \/ CloseOf \/ FinishOf

SpecConcurrent == InitConcurrent /\ [][NextConcurrent]_vars

\* Slot c holds of its child exactly what that child emitted, and delivered
\* what its own request and its own child's events determine.
OwnChildOnly(c) ==
    /\ output[c] = Concat(events[c].stdout)
    /\ errorOutput[c] = Concat(events[c].stderr)
    /\ Started(c) => outcome[c] = OwnOutcome(c)

\* C14: with calls in flight together and their children's events interleaved
\* in any order, every call captures and delivers only what its own request
\* and its own child determine, every spawn runs in this.fluxPath, and
\* this.fluxPath stays what the constructor made it.
C14_ConcurrentCallsAreIndependent ==
    /\ [](\A c \in Slots :
            /\ OwnChildOnly(c)
            /\ (spawns[c] > 0 => cwd[c] = fluxPath))
    /\ [][fluxPath' = fluxPath]_vars

C14_Witness ==
    /\ phase[1] = "done"
    /\ outcome[1] = SuccessResponse(<<"o", "k">>)
    /\ child[2] = "running"
    /\ errorOutput[2] = <<"b", "o", "o", "m">>
    /\ request[2].name = "control"
    /\ cwd[1] = <<"/srv/flux">>
    /\ cwd[2] = <<"/srv/flux">>

\* The message of a rejection, "" (empty) when the promise did not reject.
RejectionMessage(c) == settled[c].err.message

\* runPythonCommand was called in slot c with no vector or an empty one.
RefusedVector(c) ==
    promise[c] # "none" /\ (~execArgs[c].present \/ execArgs[c].items = <<>>)

\* C12: runPythonCommand given an empty or missing vector spawns no child
\* process and rejects, and that rejection differs from the one of every
\* failure to start a process (it does not even bear its prefix).
C12_EmptyVectorIsRefused ==
    \A c \in Slots :
        RefusedVector(c) =>
            /\ spawns[c] = 0
            /\ child[c] = "none"
            /\ cmd[c] = <<>>
            /\ events[c] = NoEvents
            /\ promise[c] = "rejected"
            /\ settled[c].kind = "throw"
            /\ \A failure \in SpawnFailures :
                  settled[c] # errorSettlement(failure.message)
            /\ ~Contains(RejectionMessage(c), <<"Failed to spawn Python process: ">>)

C12_Witness ==
    /\ RefusedVector(1)
    /\ ~execArgs[1].present
    /\ phase[1] = "done"
    /\ settled[1] = Throw(Error(<<"No command arguments provided">>))

\* The switch reached runPythonCommand for the call in slot c.
PassedValidation(c) ==
    Started(c) /\ toolCase(request[c].name, request[c].args).kind = "run"

\* The child of slot c has emitted its error event or its close event.
ChildEnded(c) == events[c].error # <<>> \/ events[c].close # <<>>

\* C15: a call delivers one outcome, a protocol error or a response that is
\* either a success or an error; a call that passed validation spawns one
\* child, is pending as long as that child runs and has its outcome from the
\* child's first error or close event on; a call that did not pass spawns
\* none; and no later event (the close after a spawn error) changes an
\* outcome once delivered.
C15_OneOutcomePerCall ==
    /\ [](\A c \in Slots :
            /\ outcome[c].kind \in {"none", "protocolError", "response"}
            /\ (outcome[c].kind = "protocolError") => ~outcome[c].isError
            /\ (phase[c] = "done") <=> (outcome[c] # NoOutcome)
            /\ (Started(c) /\ ~PassedValidation(c)) =>
                  (spawns[c] = 0 /\ phase[c] = "done" /\ child[c] = "none")
            /\ PassedValidation(c) =>
                  /\ spawns[c] = 1
                  /\ (child[c] = "running") <=> (phase[c] = "pending")
                  /\ (child[c] = "running") <=> ~ChildEnded(c)
                  /\ ChildEnded(c) <=> (outcome[c] # NoOutcome))
    /\ [][\A c \in Slots :
            (outcome[c] # NoOutcome /\ phase'[c] # "idle") =>
                (outcome'[c] = outcome[c] /\ spawns'[c] = spawns[c])]_vars

C15_Witness ==
    /\ PassedValidation(1)
    /\ spawns[1] = 1
    /\ child[1] = "closed"
    /\ events[1].error # <<>>
    /\ events[1].close # <<>>
    /\ outcome[1] = ErrorResponse(<<"Error: ", "Failed to spawn Python process: ">>
                                  \o events[1].error[1].message)

====
